---- MODULE Spec2Model ----
(***************************************************************************)
(* Model of skills/research-methodology-validator/scripts/                 *)
(* validated_measure.py: GroundTruthDataset, ValidationMetrics and the     *)
(* validation-gated ValidatedMeasure.                                      *)
(*                                                                         *)
(* Python floats are modelled as fixed-point integers in units of 1/Scale, *)
(* obtained by flooring the exact rational value.  Every threshold the     *)
(* model compares against is a multiple of 1/Scale, so x >= t, x < 0 and   *)
(* x = 1.0 have the same truth value on the floored number as on the exact *)
(* one.  NaN is a value outside the range of every metric, and every       *)
(* ordered comparison with it is false (IEEE 754).                         *)
(***************************************************************************)
EXTENDS Integers, Sequences, FiniteSets, TLC

\* ------------------------------------------------------------------ bounds
\* longest limitation list explored
MaxLimitations == 2
\* number of validate_against_ground_truth calls explored in one behaviour
MaxValidations == 2
\* samples above the 30-sample floor in the largest ground truth
ExtraSamples == 1
\* bootstrap resamples drawn by one validation (the code's default is 1000)
NBootstrap == 3
\* length of the longest label sequence fed to the metric functions directly
MaxLabels == 6
\* largest dataset built and split
MaxDataset == 4
\* changes made to the instances after a split
MaxEdits == 2
\* files in the largest directory audited
MaxFiles == 2

\* ------------------------------------------------------- program constants
\* fixed-point unit of a float
Scale == 10000
\* minimum number of ground-truth samples
MinSamples == 30
\* GroundTruthDataset reliability floor 0.7, in units of 1/Scale
KappaFloor == 7000
\* decision threshold 0.5 of the binarisation, in units of 1/Scale
Cutoff == 5000

NaN == 0 - (2 * Scale)
None == [kind |-> "None"]
NoSource == "<None>"

\* ---------------------------------------------------------------- helpers
Abs(x) == IF x < 0 THEN 0 - x ELSE x

\* IEEE comparison: false as soon as one side is NaN
FloatGE(x, y) == x # NaN /\ y # NaN /\ x >= y
FloatLT(x, y) == x # NaN /\ y # NaN /\ x < y

\* a / b as a float, 0/0 being NaN (numpy division)
FloatDiv(a, b) == IF b = 0 THEN NaN ELSE (a * Scale) \div b

\* _measure_impl returns an integer class or a float score
Class(v) == [float |-> FALSE, v |-> v]
Score(v) == [float |-> TRUE, v |-> v]

\* ------------------------------------------------------ sklearn.metrics
\* y_true and y_pred are equally long sequences of integer classes
unique_labels(y_true, y_pred) ==
    {y_true[i] : i \in DOMAIN y_true} \cup {y_pred[i] : i \in DOMAIN y_pred}

\* the function f with domain S, tabulated
RECURSIVE Explicit(_, _)
Explicit(f, S) ==
    IF S = {} THEN <<>>
    ELSE LET c == CHOOSE x \in S : TRUE
         IN  IF S = {c} THEN c :> f[c] ELSE (c :> f[c]) @@ Explicit(f, S \ {c})

\* C[t][p]: number of samples of true class t predicted as p
confusion_matrix(y_true, y_pred) ==
    LET classes == unique_labels(y_true, y_pred)
    IN  Explicit([t \in classes |->
            Explicit([p \in classes |->
                Cardinality({i \in DOMAIN y_true :
                                y_true[i] = t /\ y_pred[i] = p})],
                classes)], classes)

RECURSIVE SumOver(_, _)
SumOver(S, f) ==
    IF S = {} THEN 0
    ELSE LET c == CHOOSE x \in S : TRUE IN f[c] + SumOver(S \ {c}, f)

RowSum(cm, t) == SumOver(DOMAIN cm, [p \in DOMAIN cm |-> cm[t][p]])
ColSum(cm, p) == SumOver(DOMAIN cm, [t \in DOMAIN cm |-> cm[t][p]])
Diag(cm) == SumOver(DOMAIN cm, [c \in DOMAIN cm |-> cm[c][c]])
Total(cm) == SumOver(DOMAIN cm, [t \in DOMAIN cm |-> RowSum(cm, t)])

\* sum over the classes of S of w[c] * a[c] / b[c] as an exact fraction
\* <<numerator, denominator>>; a class with b[c] = 0 contributes 0
\* (zero_division=0)
RECURSIVE WeightedSum(_, _, _, _)
WeightedSum(S, w, a, b) ==
    IF S = {} THEN <<0, 1>>
    ELSE LET c == CHOOSE x \in S : TRUE
             rest == WeightedSum(S \ {c}, w, a, b)
         IN  IF b[c] = 0 THEN rest
             ELSE <<rest[1] * b[c] + w[c] * a[c] * rest[2], rest[2] * b[c]>>

\* average='weighted': per-class score weighted by the support of the class
WeightedAverage(cm, a, b) ==
    LET support == [c \in DOMAIN cm |-> RowSum(cm, c)]
        sum == WeightedSum(DOMAIN cm, support, a, b)
    IN  FloatDiv(sum[1], sum[2] * Total(cm))

accuracy_score(y_true, y_pred) ==
    LET cm == confusion_matrix(y_true, y_pred)
    IN  FloatDiv(Diag(cm), Total(cm))

precision_score(y_true, y_pred) ==
    LET cm == confusion_matrix(y_true, y_pred)
    IN  WeightedAverage(cm, [c \in DOMAIN cm |-> cm[c][c]],
                            [c \in DOMAIN cm |-> ColSum(cm, c)])

recall_score(y_true, y_pred) ==
    LET cm == confusion_matrix(y_true, y_pred)
    IN  WeightedAverage(cm, [c \in DOMAIN cm |-> cm[c][c]],
                            [c \in DOMAIN cm |-> RowSum(cm, c)])

f1_score(y_true, y_pred) ==
    LET cm == confusion_matrix(y_true, y_pred)
    IN  WeightedAverage(cm, [c \in DOMAIN cm |-> 2 * cm[c][c]],
                            [c \in DOMAIN cm |-> RowSum(cm, c) + ColSum(cm, c)])

\* mutant: observed agreement, without the correction for chance
cohen_kappa_uncorrected(y_true, y_pred) ==
    LET cm == confusion_matrix(y_true, y_pred)
    IN  FloatDiv(Diag(cm), Total(cm))

\* 1 - sum(w * confusion) / sum(w * expected), w the off-diagonal mask and
\* expected = outer(column sums, row sums) / n; 0/0 is NaN
cohen_kappa_score(y_true, y_pred) ==
    LET cm == confusion_matrix(y_true, y_pred)
        n == Total(cm)
        chance == SumOver(DOMAIN cm,
                          [c \in DOMAIN cm |-> RowSum(cm, c) * ColSum(cm, c)])
    IN  FloatDiv(n * Diag(cm) - chance, n * n - chance)

\* --------------------------------------------------------- numpy.random
\* the generator behind np.random: a deterministic function of its state
RngNext(state) == (state * 75 + 74) % 65537

\* np.random.choice(n, k, replace=True) on the generator in `state`:
\* k positions of 1..n and the state the generator is left in
RECURSIVE choice(_, _, _)
choice(state, n, k) ==
    IF k = 0 THEN [indices |-> <<>>, state |-> state]
    ELSE LET s1 == RngNext(state)
             rest == choice(s1, n, k - 1)
         IN  [indices |-> <<(s1 % n) + 1>> \o rest.indices, state |-> rest.state]

\* np.percentile(a, 100 * q), q in units of 1/Scale: linear interpolation
\* between the two order statistics around position q * (len - 1)
percentile(a, q) ==
    LET sorted == SortSeq(a, LAMBDA x, y : x < y)
        pos == q * (Len(a) - 1)
        i == pos \div Scale
        frac == pos % Scale
        lo == sorted[i + 1]
        hi == sorted[IF i + 2 <= Len(a) THEN i + 2 ELSE i + 1]
    IN  lo + ((hi - lo) * frac) \div Scale

\* ----------------------------------------------------- GroundTruthDataset
\* A dataset object is [samples, labels, metadata]; metadata maps keys to
\* values.  A nested dict is held by reference, [ref |-> id], and lives in
\* `dicts`, so that two metadata mappings can hold the same dict.
dict_get(d, key, default) == IF key \in DOMAIN d THEN d[key] ELSE default

\* mutant: a kappa of exactly 0.7 is rejected too
unreliable_inclusive(kappa) == kappa <= KappaFloor

unreliable(kappa) == kappa < KappaFloor

\* __post_init__: the exception construction raises, "" when it succeeds
post_init(samples, labels, metadata, heap) ==
    IF Len(samples) # Len(labels) THEN "ShapeMismatch"
    ELSE IF "inter_rater_reliability" \in DOMAIN metadata
    THEN LET kappa == dict_get(heap[metadata["inter_rater_reliability"].ref],
                               "cohens_kappa", 0)
         IN  IF unreliable(kappa) THEN "UnreliableAnnotations" ELSE ""
    ELSE ""

\* np.isclose(a, 1.0) for a in units of 1/unit: |a - 1| <= 1e-8 + 1e-5 * 1
isclose_one(a, unit) == Abs(a - unit) <= (1001 * unit) \div 100000000

\* int(n * ratio): truncation towards zero
int_product(n, ratio, unit) ==
    IF n * ratio >= 0 THEN (n * ratio) \div unit
    ELSE 0 - ((0 - n * ratio) \div unit)

\* a[start:stop] of Python: a negative bound counts from the end, and both
\* are clipped to the sequence
slice(a, start, stop) ==
    LET clip(i) == IF i < 0 THEN (IF i + Len(a) < 0 THEN 0 ELSE i + Len(a))
                   ELSE (IF i > Len(a) THEN Len(a) ELSE i)
    IN  SubSeq(a, clip(start) + 1, clip(stop))

\* np.random.RandomState(seed).permutation(n): a shuffle of 0 .. n-1 drawn
\* from a generator of its own, seeded with `seed`
RECURSIVE shuffle(_, _)
shuffle(a, state) ==
    IF Len(a) <= 1 THEN a
    ELSE LET s1 == RngNext(state)
             j == (s1 % Len(a)) + 1
         IN  <<a[j]>> \o shuffle(SubSeq(a, 1, j - 1) \o SubSeq(a, j + 1, Len(a)), s1)

permutation(n, seed) == shuffle(<<>> \o [i \in 1..n |-> i - 1], seed)

with_split(metadata, name) ==
    [k \in DOMAIN metadata \cup {"split"} |->
        IF k = "split" THEN name ELSE metadata[k]]

take(a, idx) == <<>> \o [i \in DOMAIN idx |-> a[idx[i] + 1]]

\* split: the three index arrays, the three new objects and the exception
\* raised ("" when it returns); ratios are in units of 1/unit
split(self, train_ratio, val_ratio, test_ratio, unit, seed, heap) ==
    IF ~isclose_one(train_ratio + val_ratio + test_ratio, unit)
    THEN [error |-> "InvalidRatios"]
    ELSE LET n == Len(self.samples)
             indices == permutation(n, seed)
             train_end == int_product(n, train_ratio, unit)
             val_end == train_end + int_product(n, val_ratio, unit)
             train_idx == slice(indices, 0, train_end)
             val_idx == slice(indices, train_end, val_end)
             test_idx == slice(indices, val_end, n)
             part(idx, name) ==
                 [samples |-> take(self.samples, idx),
                  labels |-> take(self.labels, idx),
                  metadata |-> with_split(self.metadata, name)]
             made == [train |-> part(train_idx, "train"),
                      validation |-> part(val_idx, "validation"),
                      test |-> part(test_idx, "test")]
             errors == {post_init(made[k].samples, made[k].labels,
                                  made[k].metadata, heap) : k \in DOMAIN made}
         IN  IF errors # {""}
             THEN [error |-> CHOOSE e \in errors : e # ""]
             ELSE [error |-> "", made |-> made,
                   idx |-> [train |-> train_idx, validation |-> val_idx,
                            test |-> test_idx]]

\* ------------------------------------------------------ ValidationMetrics
\* mutant: one threshold is enough
meets_threshold_either(metrics, min_f1, min_kappa) ==
    FloatGE(metrics.f1, min_f1) \/ FloatGE(metrics.cohens_kappa, min_kappa)

meets_threshold(metrics, min_f1, min_kappa) ==
    FloatGE(metrics.f1, min_f1) /\ FloatGE(metrics.cohens_kappa, min_kappa)

\* ------------------------------------------------------- ValidatedMeasure
\* "Convert to binary if needed": decided by the type of the first element
to_binary(predictions) ==
    IF predictions[1].float
    THEN <<>> \o [i \in DOMAIN predictions |->
                     IF predictions[i].v > Cutoff THEN 1 ELSE 0]
    ELSE <<>> \o [i \in DOMAIN predictions |-> predictions[i].v]

\* the bootstrap loop: k more resamples, each of n draws from the global
\* generator; `draws` keeps the positions drawn by each resample
RECURSIVE resample_f1(_, _, _, _)
resample_f1(predictions, labels, state, k) ==
    IF k = 0 THEN [f1_scores |-> <<>>, draws |-> <<>>, state |-> state]
    ELSE LET n == Len(predictions)
             drawn == choice(state, n, n)
             pred_sample == <<>> \o [i \in 1..n |-> predictions[drawn.indices[i]]]
             label_sample == <<>> \o [i \in 1..n |-> labels[drawn.indices[i]]]
             f1 == f1_score(label_sample, to_binary(pred_sample))
             rest == resample_f1(predictions, labels, drawn.state, k - 1)
         IN  [f1_scores |-> <<f1>> \o rest.f1_scores,
              draws |-> <<drawn.indices>> \o rest.draws,
              state |-> rest.state]

\* mutant: the tails are alpha wide each, not alpha/2
bootstrap_full_alpha_tails(predictions, labels, n_bootstrap, confidence, state) ==
    LET run == resample_f1(predictions, labels, state, n_bootstrap)
        alpha == Scale - confidence
        lower == percentile(run.f1_scores, alpha)
        upper == percentile(run.f1_scores, Scale - alpha)
    IN  [ci |-> [f1 |-> <<lower, upper>>], state |-> run.state]

\* confidence in units of 1/Scale; `state` is the state of np.random on
\* entry, the result carries the state it is left in
bootstrap_confidence_intervals(predictions, labels, n_bootstrap, confidence, state) ==
    LET run == resample_f1(predictions, labels, state, n_bootstrap)
        alpha == Scale - confidence
        lower == percentile(run.f1_scores, alpha \div 2)
        upper == percentile(run.f1_scores, Scale - alpha \div 2)
    IN  [ci |-> [f1 |-> <<lower, upper>>], state |-> run.state]

Confidence == 9500

calculate_metrics(predictions, labels, state, now) ==
    LET pred_binary == to_binary(predictions)
        boot == bootstrap_confidence_intervals(predictions, labels,
                                               NBootstrap, Confidence, state)
    IN  [metrics |->
            [accuracy |-> accuracy_score(labels, pred_binary),
             precision |-> precision_score(labels, pred_binary),
             recall |-> recall_score(labels, pred_binary),
             f1 |-> f1_score(labels, pred_binary),
             cohens_kappa |-> cohen_kappa_score(labels, pred_binary),
             confusion_matrix |-> confusion_matrix(labels, pred_binary),
             confidence_intervals |-> boot.ci,
             sample_size |-> Len(labels),
             timestamp |-> now],
         state |-> boot.state]

\* concrete measures: what _measure_impl returns for a sample.  A sample is
\* the feature the measure looks at (0 or 1).
Impls == {"echo", "invert", "score"}
Samples == {0, 1}

measure_impl(kind, sample) ==
    CASE kind = "echo" -> Class(sample)
      [] kind = "invert" -> Class(1 - sample)
      [] kind = "score" -> Score(IF sample = 1 THEN 9 * (Scale \div 10)
                                              ELSE Scale \div 10)

\* the object: the four fields the operations read and write
Instance(v, m, src, lim) ==
    [is_validated |-> v, validation_metrics |-> m,
     ground_truth_source |-> src, limitations |-> lim]

\* result of a call: the object afterwards, the exception raised ("" when
\* the call returns), the value returned, and how often _measure_impl ran
Returned(self, value, calls) ==
    [self |-> self, raised |-> "", error |-> "", value |-> value,
     impl_calls |-> calls]
Raised(self, exc, error, calls) ==
    [self |-> self, raised |-> exc, error |-> error, value |-> None,
     impl_calls |-> calls]

init(name, description) == Instance(FALSE, None, NoSource, <<>>)

\* mutant: the gate is missing
measure_ungated(self, kind, sample) ==
    Returned(self, measure_impl(kind, sample), 1)

measure(self, kind, sample) ==
    IF ~self.is_validated
    THEN Raised(self, "RuntimeError", "NotValidated", 0)
    ELSE Returned(self, measure_impl(kind, sample), 1)

measure_batch(self, kind, samples) ==
    IF ~self.is_validated
    THEN Raised(self, "RuntimeError", "NotValidated", 0)
    ELSE Returned(self,
                  <<>> \o [i \in DOMAIN samples |-> measure_impl(kind, samples[i])],
                  Len(samples))

metadata_get(metadata, key, default) ==
    IF key \in DOMAIN metadata THEN metadata[key] ELSE default

\* mutant: 30 samples are rejected too
too_small_inclusive(ground_truth) == Len(ground_truth.samples) <= MinSamples

too_small(ground_truth) == Len(ground_truth.samples) < MinSamples

\* validate_against_ground_truth up to the metrics: the two checks on the
\* ground truth, one prediction per sample, then _calculate_metrics.  `state`
\* is np.random's state on entry and `now` the clock reading; the result
\* carries np.random's state on exit in `state`
validate_metrics(kind, ground_truth, state, now) ==
    IF ground_truth = None
    THEN [error |-> "MissingGroundTruth", impl_calls |-> 0,
          metrics |-> None, state |-> state]
    ELSE IF too_small(ground_truth)
    THEN [error |-> "InsufficientSampleSize", impl_calls |-> 0,
          metrics |-> None, state |-> state]
    ELSE LET predictions == <<>> \o [i \in DOMAIN ground_truth.samples |->
                                measure_impl(kind, ground_truth.samples[i])]
             labels == ground_truth.labels
             computed == calculate_metrics(predictions, labels, state, now)
         IN  [error |-> "", impl_calls |-> Len(predictions),
              metrics |-> computed.metrics, state |-> computed.state]

\* mutant: stores the computed metrics before the thresholds are checked
validate_storing_first(self, ground_truth, min_f1, min_kappa, run) ==
    IF run.error # ""
    THEN [call |-> Raised(self, "ValueError", run.error, run.impl_calls),
          state |-> run.state]
    ELSE LET stored == [self EXCEPT !.validation_metrics = run.metrics]
         IN  IF ~meets_threshold(run.metrics, min_f1, min_kappa)
             THEN [call |-> Raised(stored, "ValueError", "ThresholdNotMet",
                                   run.impl_calls),
                   state |-> run.state]
             ELSE [call |-> Returned(
                               Instance(TRUE, run.metrics,
                                        metadata_get(ground_truth.metadata,
                                                     "source", "unknown"),
                                        self.limitations),
                               run.metrics, run.impl_calls),
                   state |-> run.state]

\* mutant: a measure that already has a source keeps it
validate_keeping_source(self, ground_truth, min_f1, min_kappa, run) ==
    IF run.error # ""
    THEN [call |-> Raised(self, "ValueError", run.error, run.impl_calls),
          state |-> run.state]
    ELSE LET metrics == run.metrics
         IN  IF ~meets_threshold(metrics, min_f1, min_kappa)
             THEN [call |-> Raised(self, "ValueError", "ThresholdNotMet",
                                   run.impl_calls),
                   state |-> run.state]
             ELSE [call |-> Returned(
                               Instance(TRUE, metrics,
                                        IF self.ground_truth_source # NoSource
                                        THEN self.ground_truth_source
                                        ELSE metadata_get(ground_truth.metadata,
                                                          "source", "unknown"),
                                        self.limitations),
                               metrics, run.impl_calls),
                   state |-> run.state]

\* the whole call, `run` being validate_metrics on the same ground truth:
\* an error of the checks is raised as it is, otherwise the thresholds
\* decide between raising and storing
validate_against_ground_truth(self, ground_truth, min_f1, min_kappa, run) ==
    IF run.error # ""
    THEN [call |-> Raised(self, "ValueError", run.error, run.impl_calls),
          state |-> run.state]
    ELSE LET metrics == run.metrics
         IN  IF ~meets_threshold(metrics, min_f1, min_kappa)
             THEN [call |-> Raised(self, "ValueError", "ThresholdNotMet",
                                   run.impl_calls),
                   state |-> run.state]
             ELSE [call |-> Returned(
                               Instance(TRUE, metrics,
                                        metadata_get(ground_truth.metadata,
                                                     "source", "unknown"),
                                        self.limitations),
                               metrics, run.impl_calls),
                   state |-> run.state]

\* mutant: a text already in the list is not added again
add_limitation_unique(self, limitation) ==
    Returned([self EXCEPT !.limitations =
                 IF \E i \in DOMAIN @ : @[i] = limitation THEN @
                 ELSE Append(@, limitation)], None, 0)

add_limitation(self, limitation) ==
    Returned([self EXCEPT !.limitations = Append(@, limitation)], None, 0)

\* '{:.3f}' of a float: thousandths, rounded; nan prints as nan
Format3(x) == IF x = NaN THEN NaN ELSE (x * 1000 + Scale \div 2) \div Scale

\* mutant: an empty limitation list leaves the section empty
get_validation_report_bare(self) ==
    IF ~self.is_validated
    THEN Returned(self, [text |-> "has not been validated"], 0)
    ELSE LET m == self.validation_metrics
         IN  Returned(self,
                [text |-> "Validation Report",
                 ground_truth_source |-> self.ground_truth_source,
                 sample_size |-> m.sample_size,
                 accuracy |-> Format3(m.accuracy),
                 precision |-> Format3(m.precision),
                 recall |-> Format3(m.recall),
                 f1 |-> Format3(m.f1),
                 cohens_kappa |-> Format3(m.cohens_kappa),
                 confidence_interval |-> <<Format3(m.confidence_intervals.f1[1]),
                                           Format3(m.confidence_intervals.f1[2])>>,
                 confusion_matrix |-> m.confusion_matrix,
                 limitations |-> self.limitations,
                 validated |-> m.timestamp], 0)

get_validation_report(self) ==
    IF ~self.is_validated
    THEN Returned(self, [text |-> "has not been validated"], 0)
    ELSE LET m == self.validation_metrics
         IN  Returned(self,
                [text |-> "Validation Report",
                 ground_truth_source |-> self.ground_truth_source,
                 sample_size |-> m.sample_size,
                 accuracy |-> Format3(m.accuracy),
                 precision |-> Format3(m.precision),
                 recall |-> Format3(m.recall),
                 f1 |-> Format3(m.f1),
                 cohens_kappa |-> Format3(m.cohens_kappa),
                 confidence_interval |-> <<Format3(m.confidence_intervals.f1[1]),
                                           Format3(m.confidence_intervals.f1[2])>>,
                 confusion_matrix |-> m.confusion_matrix,
                 limitations |-> IF self.limitations = <<>>
                                 THEN <<"(No limitations documented)">>
                                 ELSE self.limitations,
                 validated |-> m.timestamp], 0)

RECURSIVE SortedSeq(_)
SortedSeq(S) ==
    IF S = {} THEN <<>>
    ELSE LET least == CHOOSE x \in S : \A y \in S : x <= y
         IN  <<least>> \o SortedSeq(S \ {least})

\* confusion_matrix.tolist(): the rows in class order
tolist(cm) ==
    LET classes == SortedSeq(DOMAIN cm)
    IN  [i \in DOMAIN classes |->
            [j \in DOMAIN classes |-> cm[classes[i]][classes[j]]]]

to_dict(metrics) ==
    [metrics EXCEPT !.confusion_matrix = tolist(@),
                    !.confidence_intervals = [f1 |-> <<@.f1[1], @.f1[2]>>]]

\* the value carries the document written to the file
save_validation(self) ==
    IF ~self.is_validated
    THEN Raised(self, "RuntimeError", "NotValidated", 0)
    ELSE Returned(self,
            [ground_truth_source |-> self.ground_truth_source,
             validation_metrics |-> to_dict(self.validation_metrics),
             limitations |-> self.limitations,
             is_validated |-> self.is_validated], 0)

\* --------------------------------------------- CircularValidationDetector
\* A str is the sequence of its characters.
\* str.lower() on the letters the descriptions are written in
upper_case ==
    "A" :> "a" @@ "B" :> "b" @@ "C" :> "c" @@ "D" :> "d" @@ "E" :> "e" @@ "F" :> "f" @@ "G" :> "g" @@ "H" :> "h" @@ "I" :> "i" @@ "J" :> "j" @@ "K" :> "k" @@ "L" :> "l" @@ "M" :> "m"
    @@ "N" :> "n" @@ "O" :> "o" @@ "P" :> "p" @@ "Q" :> "q" @@ "R" :> "r" @@ "S" :> "s" @@ "T" :> "t" @@ "U" :> "u" @@ "V" :> "v" @@ "W" :> "w" @@ "X" :> "x" @@ "Y" :> "y" @@ "Z" :> "z"
str_lower(s) ==
    <<>> \o [i \in DOMAIN s |->
                IF s[i] \in DOMAIN upper_case THEN upper_case[s[i]] ELSE s[i]]

\* needle in haystack
str_in(needle, haystack) ==
    \E start \in 0..(Len(haystack) - Len(needle)) :
        \A j \in DOMAIN needle : haystack[start + j] = needle[j]

\* the words of the red-flag table
pattern_matching ==
    <<"p", "a", "t", "t", "e", "r", "n", " ", "m", "a", "t", "c", "h", "i", "n", "g">>
dictionary == <<"d", "i", "c", "t", "i", "o", "n", "a", "r", "y">>
same_model == <<"s", "a", "m", "e", " ", "m", "o", "d", "e", "l">>
self_reported == <<"s", "e", "l", "f", "-", "r", "e", "p", "o", "r", "t", "e", "d">>
model_confidence ==
    <<"m", "o", "d", "e", "l", " ", "c", "o", "n", "f", "i", "d", "e", "n", "c", "e">>
model_output == <<"m", "o", "d", "e", "l", " ", "o", "u", "t", "p", "u", "t">>

circular_patterns ==
    << <<pattern_matching, pattern_matching>>,
       <<dictionary, dictionary>>,
       <<same_model, same_model>>,
       <<self_reported, self_reported>>,
       <<model_confidence, model_output>> >>

independent_text == "Validation appears independent"
circular_text == "Circular validation detected"

\* the (is_independent, explanation) pair returned; the explanation is its
\* fixed wording and the two patterns it quotes
Explained(is_independent, text, measure_pattern, gt_pattern) ==
    [is_independent |-> is_independent,
     explanation |-> [text |-> text, measure_pattern |-> measure_pattern,
                      gt_pattern |-> gt_pattern]]

\* mutant: one of the two patterns is enough to flag
RECURSIVE scan_patterns_either(_, _, _)
scan_patterns_either(measure_lower, gt_lower, k) ==
    IF k > Len(circular_patterns)
    THEN Explained(TRUE, independent_text, <<>>, <<>>)
    ELSE IF \/ str_in(circular_patterns[k][1], measure_lower)
            \/ str_in(circular_patterns[k][2], gt_lower)
    THEN Explained(FALSE, circular_text, circular_patterns[k][1],
                   circular_patterns[k][2])
    ELSE scan_patterns_either(measure_lower, gt_lower, k + 1)

\* the loop over the table from entry k on: the first entry whose two
\* patterns both occur returns
RECURSIVE scan_patterns(_, _, _)
scan_patterns(measure_lower, gt_lower, k) ==
    IF k > Len(circular_patterns)
    THEN Explained(TRUE, independent_text, <<>>, <<>>)
    ELSE IF /\ str_in(circular_patterns[k][1], measure_lower)
            /\ str_in(circular_patterns[k][2], gt_lower)
    THEN Explained(FALSE, circular_text, circular_patterns[k][1],
                   circular_patterns[k][2])
    ELSE scan_patterns(measure_lower, gt_lower, k + 1)

check_independence(measure_method, ground_truth_method) ==
    scan_patterns(str_lower(measure_method), str_lower(ground_truth_method), 1)

\* thresholds of the ground-truth checklist
QualityKappa == 7000
MinSampleSize == 100
MinAnnotators == 3

\* the issue texts, without the numbers they quote
kappa_below == "Inter-rater reliability below threshold 0.7"
kappa_missing == "Inter-rater reliability not reported"
size_below == "Sample size below recommended minimum of 100"
size_missing == "Sample size not reported"
annotators_below == "Number of annotators below minimum of 3"
annotators_missing == "Number of annotators not reported"
guidelines_missing == "Annotation guidelines not documented"

\* mutant: returns as soon as one check has failed
validate_ground_truth_quality_first_only(metadata) ==
    LET reliability ==
            IF "inter_rater_reliability" \in DOMAIN metadata
            THEN IF FloatLT(dict_get(metadata.inter_rater_reliability,
                                     "cohens_kappa", 0), QualityKappa)
                 THEN <<kappa_below>> ELSE <<>>
            ELSE <<kappa_missing>>
        size ==
            IF "sample_size" \in DOMAIN metadata
            THEN IF metadata.sample_size < MinSampleSize
                 THEN <<size_below>> ELSE <<>>
            ELSE <<size_missing>>
        annotators ==
            IF "num_annotators" \in DOMAIN metadata
            THEN IF metadata.num_annotators < MinAnnotators
                 THEN <<annotators_below>> ELSE <<>>
            ELSE <<annotators_missing>>
        guidelines ==
            IF ~dict_get(metadata, "has_annotation_guidelines", FALSE)
            THEN <<guidelines_missing>> ELSE <<>>
        found == IF reliability # <<>> THEN reliability
                 ELSE IF size # <<>> THEN size
                 ELSE IF annotators # <<>> THEN annotators
                 ELSE guidelines
    IN  [is_valid |-> Len(found) = 0, issues |-> found]

\* the four checks in turn, each appending to the one issue list
validate_ground_truth_quality(metadata) ==
    LET reliability ==
            IF "inter_rater_reliability" \in DOMAIN metadata
            THEN IF FloatLT(dict_get(metadata.inter_rater_reliability,
                                     "cohens_kappa", 0), QualityKappa)
                 THEN <<kappa_below>> ELSE <<>>
            ELSE <<kappa_missing>>
        size ==
            IF "sample_size" \in DOMAIN metadata
            THEN IF metadata.sample_size < MinSampleSize
                 THEN <<size_below>> ELSE <<>>
            ELSE <<size_missing>>
        annotators ==
            IF "num_annotators" \in DOMAIN metadata
            THEN IF metadata.num_annotators < MinAnnotators
                 THEN <<annotators_below>> ELSE <<>>
            ELSE <<annotators_missing>>
        guidelines ==
            IF ~dict_get(metadata, "has_annotation_guidelines", FALSE)
            THEN <<guidelines_missing>> ELSE <<>>
        found == reliability \o size \o annotators \o guidelines
    IN  [is_valid |-> Len(found) = 0, issues |-> found]

\* ---------------------------------------------------- MethodologyAuditor
\* the source files audited: open(filepath).read().split('\n')
file_lines ==
    "clean.py" :> <<"x = 1">>
    @@ "circular.py" :> <<"class Scorer:", "    def score(self, x):", "        return len(x)", "    def validate_pattern(self, x):", "        return self.score(x.pattern) > 0">>
    @@ "selfcheck.py" :> <<"def verify(self):", "    return self.detect()">>
    @@ "measure.py" :> <<"import random", "class Detector:", "    def measure(self, x):", "        threshold = 0.5", "        return x.mean()">>
    @@ "stats.py" :> <<"if p < 0.05:", "    print('significant difference')">>
    @@ "checked.py" :> <<"import random", "random.seed(42)  # fixed", "beta = 0.9  # from the paper", "if p < 0.01:  # cohen d = 0.8", "    pass">>
    @@ "broken.py" :> <<"def verify(model:", "alpha = 0.1">>
\* str.lower() of the lines and of the method names
lowered ==
    "class Scorer:" :> "class scorer:"
    @@ "class Detector:" :> "class detector:"
lower(s) == IF s \in DOMAIN lowered THEN lowered[s] ELSE s
\* re.search: for each pattern the strings above that it finds a match in
matching ==
    "def.*(validate|validation|verify)" :> { "    def validate_pattern(self, x):",
          "def verify(self):",
          "def verify(model:" }
    @@ "self\\.(detect|measure|score)" :> { "        return self.score(x.pattern) > 0",
          "    return self.detect()" }
    @@ "pattern" :> { "    def validate_pattern(self, x):",
          "        return self.score(x.pattern) > 0" }
    @@ "def\\s+measure\\s*\\(" :> { "    def measure(self, x):" }
    @@ "def\\s+detect\\s*\\(" :> {}
    @@ "def\\s+score\\s*\\(" :> { "    def score(self, x):" }
    @@ "def\\s+evaluate\\s*\\(" :> {}
    @@ "(validate|validation|ground.truth)" :> { "    def validate_pattern(self, x):" }
    @@ "p\\s*[<>=]" :> { "if p < 0.05:",
          "if p < 0.01:  # cohen d = 0.8" }
    @@ "(cohen|effect.size|confidence.interval)" :> { "if p < 0.01:  # cohen d = 0.8" }
    @@ "significant" :> { "    print('significant difference')" }
    @@ "#" :> { "random.seed(42)  # fixed",
          "beta = 0.9  # from the paper",
          "if p < 0.01:  # cohen d = 0.8" }
    @@ "(random|shuffle|sample|choice)" :> { "import random",
          "random.seed(42)  # fixed" }
    @@ "(seed|random_state)" :> { "random.seed(42)  # fixed" }
    @@ "(threshold|alpha|beta|learning_rate)\\s*=\\s*[0-9.]+" :> { "        threshold = 0.5",
          "beta = 0.9  # from the paper",
          "alpha = 0.1" }
re_search(pattern, string) == string \in matching[pattern]
\* keyword in name, for the method names of the classes
containing ==
    "measure" :> { "measure" }
    @@ "detect" :> {}
    @@ "score" :> { "score" }
    @@ "evaluate" :> {}
    @@ "validate" :> { "validate_pattern" }
    @@ "verify" :> {}
    @@ "check" :> {}
\* ast.parse: SyntaxError, or the classes in ast.walk order, each with the
\* functions of its body and the attribute calls ast.walk finds in them
ast_parse ==
    "clean.py" :> [syntax_error |-> FALSE, classes |-> <<>>]
    @@ "circular.py" :> [syntax_error |-> FALSE, classes |-> <<[name |-> "Scorer", lineno |-> 1, body |-> <<[name |-> "score", lineno |-> 2, calls |-> <<>>], [name |-> "validate_pattern", lineno |-> 4, calls |-> <<"score">>]>>]>>]
    @@ "selfcheck.py" :> [syntax_error |-> FALSE, classes |-> <<>>]
    @@ "measure.py" :> [syntax_error |-> FALSE, classes |-> <<[name |-> "Detector", lineno |-> 2, body |-> <<[name |-> "measure", lineno |-> 3, calls |-> <<"mean">>]>>]>>]
    @@ "stats.py" :> [syntax_error |-> FALSE, classes |-> <<>>]
    @@ "checked.py" :> [syntax_error |-> FALSE, classes |-> <<>>]
    @@ "broken.py" :> [syntax_error |-> TRUE, classes |-> <<>>]

\* a MethodologyIssue; the description is the pieces of its f-string, the
\* location is <<filepath, line>> with line 0 when it is the file alone
MethodologyIssue(severity, category, description, filepath, line) ==
    [severity |-> severity, category |-> category,
     description |-> description, location |-> <<filepath, line>>]

\* what a check leaves behind: self.issues, and the exception it raised
Checked(found) == [issues |-> found, raised |-> "", message |-> ""]
CheckRaised(found, exc, message) ==
    [issues |-> found, raised |-> exc, message |-> message]

\* the appends of a loop, in iteration order
RECURSIVE Flatten(_)
Flatten(appends) ==
    IF appends = <<>> THEN <<>>
    ELSE Head(appends) \o Flatten(Tail(appends))

\* the slice lines[from:to] of a 0-based list, as positions counted from 1
Slice(lines, from, to) == {j \in DOMAIN lines : from < j /\ j <= to}
Smaller(a, b) == IF a <= b THEN a ELSE b
Larger(a, b) == IF a >= b THEN a ELSE b

\* re.search in lines joined by '\n': no pattern searched in joined text can
\* match a newline, so a match lies within one of the lines
search_joined(pattern, lines, positions, lowering) ==
    \E j \in positions :
        re_search(pattern, IF lowering THEN lower(lines[j]) ELSE lines[j])

\* _check_circular_validation: every line that defines a validation method
\* is judged by the 20 lines after it
check_circular_validation(found, lines, filepath) ==
    LET judged(line_num) ==
            LET method_body ==
                    Slice(lines, line_num, Smaller(line_num + 20, Len(lines)))
                calls_measure ==
                    IF search_joined("self\\.(detect|measure|score)", lines,
                                     method_body, FALSE)
                    THEN << MethodologyIssue("critical", "circular_logic",
                              <<"Validation method calls measurement method from same class">>,
                              filepath, line_num) >>
                    ELSE <<>>
                pattern_based ==
                    IF /\ search_joined("pattern", lines, method_body, TRUE)
                       /\ re_search("pattern", lower(lines[line_num]))
                    THEN << MethodologyIssue("critical", "circular_logic",
                              <<"Pattern matching appears to validate pattern matching">>,
                              filepath, line_num) >>
                    ELSE <<>>
            IN  calls_measure \o pattern_based
    IN  Checked(found \o Flatten([i \in DOMAIN lines |->
            IF re_search("def.*(validate|validation|verify)", lower(lines[i]))
            THEN judged(i) ELSE <<>>]))

missing_validation_patterns ==
    << "def\\s+measure\\s*\\(", "def\\s+detect\\s*\\(",
       "def\\s+score\\s*\\(", "def\\s+evaluate\\s*\\(" >>

\* any(x) for an x that is a re.Match or None: neither can be iterated
any_of_match(match) ==
    IF match THEN "'re.Match' object is not iterable"
    ELSE "'NoneType' object is not iterable"

\* _check_missing_validation: the measurement methods are collected, then
\* any() is handed the result of re.search itself and raises; the appends
\* that follow it are never reached
check_missing_validation(found, lines, filepath) ==
    LET measurement_methods ==
            Flatten([i \in DOMAIN lines |->
                Flatten([k \in DOMAIN missing_validation_patterns |->
                    IF re_search(missing_validation_patterns[k], lines[i])
                    THEN <<i>> ELSE <<>>])])
        match == search_joined("(validate|validation|ground.truth)", lines,
                               DOMAIN lines, TRUE)
    IN  CheckRaised(found, "TypeError", any_of_match(match))

\* _check_statistical_issues: line by line, a p-value with no effect size in
\* the lines around it, then a significance claim outside a comment
check_statistical_issues(found, lines, filepath) ==
    LET judged(i) ==
            LET context == Slice(lines, Larger(0, i - 5), Smaller(Len(lines), i + 5))
                p_value ==
                    IF /\ re_search("p\\s*[<>=]", lower(lines[i]))
                       /\ ~search_joined("(cohen|effect.size|confidence.interval)",
                                         lines, context, TRUE)
                    THEN << MethodologyIssue("major", "statistical_issue",
                              <<"P-value reported without effect size or confidence interval">>,
                              filepath, i) >>
                    ELSE <<>>
                claim ==
                    IF /\ re_search("significant", lower(lines[i]))
                       /\ ~re_search("#", lines[i])
                    THEN << MethodologyIssue("major", "statistical_issue",
                              <<"Significance claim without statistical details">>,
                              filepath, i) >>
                    ELSE <<>>
            IN  p_value \o claim
    IN  Checked(found \o Flatten([i \in DOMAIN lines |-> judged(i)]))

\* _check_reproducibility: randomness with no seed anywhere in the file, then
\* every undocumented hyperparameter assignment
check_reproducibility(found, lines, filepath) ==
    LET has_random ==
            \E i \in DOMAIN lines :
                re_search("(random|shuffle|sample|choice)", lower(lines[i]))
        has_seed ==
            \E i \in DOMAIN lines :
                re_search("(seed|random_state)", lower(lines[i]))
        unseeded ==
            IF has_random /\ ~has_seed
            THEN << MethodologyIssue("major", "reproducibility",
                      <<"Random operations without seed specification">>,
                      filepath, 0) >>
            ELSE <<>>
        hardcoded(i) ==
            IF /\ re_search("(threshold|alpha|beta|learning_rate)\\s*=\\s*[0-9.]+",
                            lines[i])
               /\ ~re_search("#", lines[i])
            THEN << MethodologyIssue("minor", "reproducibility",
                      <<"Hyperparameter without documentation">>, filepath, i) >>
            ELSE <<>>
    IN  Checked(found \o unseeded
                      \o Flatten([i \in DOMAIN lines |-> hardcoded(i)]))

\* any(keyword in name for keyword in keywords)
any_keyword_in(keywords, name) == \E keyword \in keywords : name \in containing[keyword]

\* _check_class: the appends for one class
check_class(node, filepath) ==
    LET measure_methods ==
            SelectSeq(node.body, LAMBDA item :
                any_keyword_in({"measure", "detect", "score", "evaluate"},
                               lower(item.name)))
        validate_methods ==
            SelectSeq(node.body, LAMBDA item :
                any_keyword_in({"validate", "verify", "check"},
                               lower(item.name)))
        unvalidated ==
            IF measure_methods # <<>> /\ validate_methods = <<>>
            THEN << MethodologyIssue("critical", "missing_validation",
                      <<"Class ", node.name,
                        " has measurement methods but no validation">>,
                      filepath, node.lineno) >>
            ELSE <<>>
        circular(validate_method, measure_method) ==
            Flatten([c \in DOMAIN validate_method.calls |->
                IF validate_method.calls[c] = measure_method.name
                THEN << MethodologyIssue("critical", "circular_logic",
                          <<"Validation method ", validate_method.name,
                            " calls measurement method ", measure_method.name>>,
                          filepath, validate_method.lineno) >>
                ELSE <<>>])
    IN  unvalidated
        \o Flatten([v \in DOMAIN validate_methods |->
               Flatten([m \in DOMAIN measure_methods |->
                   circular(validate_methods[v], measure_methods[m])])])

\* _check_ast: every class of the tree
check_ast(found, tree, filepath) ==
    Checked(found \o Flatten([c \in DOMAIN tree.classes |->
                                  check_class(tree.classes[c], filepath)]))

\* what audit_file leaves behind: the list it returns (self.issues), the
\* checks that ran to their end, and the lines it printed
Audited(found, ran, lines) ==
    [issues |-> found, checks_run |-> ran, printed |-> lines]
ErrorAuditing(filepath, e) == [filepath |-> filepath, error |-> e]

Checks ==
    << "circular_validation", "missing_validation", "statistical_issues",
       "reproducibility", "ast" >>

\* audit_file: the checks in order on one list; the first exception ends the
\* audit with what was found so far, a SyntaxError only skips the AST check
audit_file(filepath) ==
    IF filepath \notin DOMAIN file_lines
    THEN Audited(<<>>, <<>>, <<ErrorAuditing(filepath, "No such file or directory")>>)
    ELSE LET lines == file_lines[filepath]
             circular == check_circular_validation(<<>>, lines, filepath)
             missing == check_missing_validation(circular.issues, lines, filepath)
             statistical == check_statistical_issues(missing.issues, lines, filepath)
             reproducibility == check_reproducibility(statistical.issues, lines, filepath)
             tree == ast_parse[filepath]
         IN  IF missing.raised # ""
             THEN Audited(missing.issues, SubSeq(Checks, 1, 1),
                          <<ErrorAuditing(filepath, missing.message)>>)
             ELSE IF tree.syntax_error
             THEN Audited(reproducibility.issues, SubSeq(Checks, 1, 4), <<>>)
             ELSE Audited(check_ast(reproducibility.issues, tree, filepath).issues,
                          Checks, <<>>)

\* audit_directory over the files rglob yields, in its order: every file is
\* audited on the same auditor, a file is kept in the result when its list is
\* not empty; self.issues is left as the last audit_file set it
RECURSIVE audit_directory(_, _)
audit_directory(self_issues, listing) ==
    IF listing = <<>>
    THEN [results |-> <<>>, issues |-> self_issues, printed |-> <<>>]
    ELSE LET n == Len(listing)
             before == audit_directory(self_issues, SubSeq(listing, 1, n - 1))
             last == audit_file(listing[n])
         IN  [results |-> IF last.issues # <<>>
                          THEN (listing[n] :> last.issues) @@ before.results
                          ELSE before.results,
              issues |-> last.issues,
              printed |-> before.printed \o last.printed]

\* [i for i in issues if i.severity == severity]
of_severity(found, severity) ==
    SelectSeq(found, LAMBDA i : i.severity = severity)

no_issues_found == "No methodological issues found!"

\* generate_report: the one-line text, or the counts, the three sections in
\* order and the recommendations that go with the sections present
generate_report(self_issues) ==
    IF self_issues = <<>> THEN [text |-> no_issues_found]
    ELSE LET critical == of_severity(self_issues, "critical")
             major == of_severity(self_issues, "major")
             minor == of_severity(self_issues, "minor")
         IN  [text |-> "METHODOLOGY AUDIT REPORT",
              total |-> Len(self_issues),
              critical |-> Len(critical),
              major |-> Len(major),
              minor |-> Len(minor),
              sections |-> critical \o major \o minor,
              recommendations |->
                  (IF critical # <<>> THEN <<1>> ELSE <<>>)
                  \o (IF major # <<>> THEN <<2>> ELSE <<>>)
                  \o (IF minor # <<>> THEN <<3>> ELSE <<>>)]

\* audit_project without an output file: a new auditor audits the directory,
\* the report is printed, the summary counts the auditor's issues
audit_project(listing) ==
    LET audited == audit_directory(<<>>, listing)
        report == generate_report(audited.issues)
    IN  [summary |->
            [total_issues |-> Len(audited.issues),
             critical |-> Len(of_severity(audited.issues, "critical")),
             major |-> Len(of_severity(audited.issues, "major")),
             minor |-> Len(of_severity(audited.issues, "minor")),
             files_with_issues |-> Cardinality(DOMAIN audited.results)],
         printed |-> audited.printed \o <<report>>]

\* ------------------------------------------------------------ the state
VARIABLES
    is_validated,          \* ValidatedMeasure.is_validated
    validation_metrics,    \* ValidatedMeasure.validation_metrics
    ground_truth_source,   \* ValidatedMeasure.ground_truth_source
    limitations,           \* ValidatedMeasure.limitations
    impl,                  \* the concrete _measure_impl of the instance
    np_random,             \* state of the process-wide numpy generator
    clock,                 \* datetime.now()
    outcome,               \* the last call: operation, arguments, result
    successes,             \* history: validations that returned normally
    seed,                  \* history: the seed np.random was started from
    saved_file,            \* what save_validation last wrote
    y_true,                \* labels handed to _calculate_metrics directly
    calculated,            \* the ValidationMetrics it returned for them
    objects,               \* the GroundTruthDataset instances, by name
    dicts,                 \* the nested dicts the metadata mappings refer to
    edits,                 \* changes made to the instances after a split
    asked,                 \* the arguments of a CircularValidationDetector call
    verdict,               \* what that call returned
    issues,                \* MethodologyAuditor.issues
    checks_run,            \* history: the checks the last audit_file completed
    printed                \* history: what the last auditor call printed

measureVars == <<is_validated, validation_metrics, ground_truth_source,
                 limitations, outcome, successes, saved_file>>
calcVars == <<y_true, calculated>>
dataVars == <<objects, dicts, edits>>
detectorVars == <<asked, verdict>>
auditorVars == <<issues, checks_run, printed>>
toolVars == <<detectorVars, auditorVars>>
vars == <<measureVars, impl, np_random, seed, clock, calcVars, dataVars, toolVars>>

Self == Instance(is_validated, validation_metrics, ground_truth_source,
                 limitations)

\* ------------------------------------------------------------ the inputs
Rep(x, k) == [i \in 1..k |-> x]

\* a ground truth with n[s][l] samples of feature s labelled l
GroundTruth(n00, n01, n10, n11, metadata) ==
    [samples |-> Rep(0, n00 + n01) \o Rep(1, n10 + n11),
     labels |-> Rep(0, n00) \o Rep(1, n01) \o Rep(0, n10) \o Rep(1, n11),
     metadata |-> metadata]

Sourced == [source |-> "expert annotations"]
Unsourced == [num_annotators |-> 3]
Half == MinSamples \div 2
Top == MinSamples + ExtraSamples

GroundTruths ==
    { GroundTruth(0, 0, 0, 0, Sourced),
      GroundTruth(Half, 0, 0, MinSamples - Half - 1, Sourced),
      GroundTruth(Half, 0, 0, MinSamples - Half, Sourced),
      GroundTruth(Top, 0, 0, 0, Sourced),
      GroundTruth(Half - 3, 3, 3, MinSamples - Half - 3, Unsourced) }

MinF1s == {8 * (Scale \div 10), Scale}
MinKappas == {6 * (Scale \div 10), Scale}
Texts == {"only validated on peer reviews", "may not generalize"}
Batches == {<<>>, <<0, 1>>}
Seeds == {1}

\* ------------------------------------------------------------ operations
Call(op, args, result) ==
    [op |-> op, args |-> args, raised |-> result.raised,
     error |-> result.error, value |-> result.value,
     impl_calls |-> result.impl_calls]

Store(self) ==
    /\ is_validated' = self.is_validated
    /\ validation_metrics' = self.validation_metrics
    /\ ground_truth_source' = self.ground_truth_source
    /\ limitations' = self.limitations

InitInstance ==
    /\ is_validated = init("measure", "description").is_validated
    /\ validation_metrics = init("measure", "description").validation_metrics
    /\ ground_truth_source = init("measure", "description").ground_truth_source
    /\ limitations = init("measure", "description").limitations
    /\ np_random \in Seeds
    /\ seed = np_random
    /\ clock = 0
    /\ outcome = Call("__init__", <<>>, Returned(None, None, 0))
    /\ successes = 0
    /\ saved_file = None

NoDatasets ==
    /\ objects = <<>>
    /\ dicts = <<>>
    /\ edits = 0

\* no detector call is pending and no auditor exists
NoTools ==
    /\ asked = None
    /\ verdict = None
    /\ issues = <<>>
    /\ checks_run = <<>>
    /\ printed = <<>>

\* the life cycle is explored for the measures that predict classes; scores
\* only differ inside _calculate_metrics
Init ==
    /\ InitInstance
    /\ impl \in Impls \ {"score"}
    /\ y_true = <<>>
    /\ calculated = None
    /\ NoDatasets
    /\ NoTools

Measure ==
    \E sample \in Samples :
        \E r \in {measure(Self, impl, sample)} :
            /\ Store(r.self)
            /\ outcome' = Call("measure", <<sample>>, r)
            /\ UNCHANGED <<impl, np_random, seed, clock, successes, saved_file, calcVars, dataVars, toolVars>>

MeasureBatch ==
    \E samples \in Batches :
        \E r \in {measure_batch(Self, impl, samples)} :
            /\ Store(r.self)
            /\ outcome' = Call("measure_batch", <<samples>>, r)
            /\ UNCHANGED <<impl, np_random, seed, clock, successes, saved_file, calcVars, dataVars, toolVars>>

Validate ==
    /\ clock < MaxValidations
    /\ \E ground_truth \in GroundTruths \cup {None} :
        \E run \in {validate_metrics(impl, ground_truth, np_random, clock + 1)} :
            \E min_f1 \in MinF1s, min_kappa \in MinKappas :
                \E r \in {validate_against_ground_truth(Self, ground_truth,
                              min_f1, min_kappa, run)} :
                    /\ Store(r.call.self)
                    /\ np_random' = r.state
                    /\ clock' = clock + 1
                    /\ outcome' = Call("validate_against_ground_truth",
                                       <<ground_truth, min_f1, min_kappa>>,
                                       r.call)
                    /\ successes' = IF r.call.raised = "" THEN successes + 1
                                    ELSE successes
                    /\ UNCHANGED <<impl, seed, saved_file, calcVars, dataVars, toolVars>>

AddLimitation ==
    /\ Len(limitations) < MaxLimitations
    /\ \E text \in Texts :
        \E r \in {add_limitation(Self, text)} :
            /\ Store(r.self)
            /\ outcome' = Call("add_limitation", <<text>>, r)
            /\ UNCHANGED <<impl, np_random, seed, clock, successes, saved_file, calcVars, dataVars, toolVars>>

GetValidationReport ==
    \E r \in {get_validation_report(Self)} :
        /\ Store(r.self)
        /\ outcome' = Call("get_validation_report", <<>>, r)
        /\ UNCHANGED <<impl, np_random, seed, clock, successes, saved_file, calcVars, dataVars, toolVars>>

SaveValidation ==
    \E r \in {save_validation(Self)} :
        /\ Store(r.self)
        /\ outcome' = Call("save_validation", <<>>, r)
        /\ saved_file' = IF r.raised = "" THEN r.value ELSE saved_file
        /\ UNCHANGED <<impl, np_random, seed, clock, successes, calcVars, dataVars, toolVars>>

Next ==
    \/ Measure
    \/ MeasureBatch
    \/ Validate
    \/ AddLimitation
    \/ GetValidationReport
    \/ SaveValidation

Spec == Init /\ [][Next]_vars

\* ------------------------------------- _calculate_metrics on its own
\* every non-empty sequence of binary labels of at most MaxLabels entries
LabelSeqs == UNION {[1..n -> {0, 1}] : n \in 1..MaxLabels}

InitMetrics ==
    /\ InitInstance
    /\ impl \in Impls
    /\ y_true \in LabelSeqs
    /\ calculated = None
    /\ NoDatasets
    /\ NoTools

\* the measure scores samples whose feature is their label: "echo" predicts
\* every label, "invert" its complement
Calculate ==
    /\ calculated = None
    /\ \E r \in {calculate_metrics(
                    <<>> \o [i \in DOMAIN y_true |-> measure_impl(impl, y_true[i])],
                    y_true, np_random, clock + 1)} :
        /\ calculated' = r.metrics
        /\ np_random' = r.state
        /\ clock' = clock + 1
    /\ UNCHANGED <<measureVars, impl, seed, y_true, dataVars, toolVars>>

NextMetrics == Calculate

SpecMetrics == InitMetrics /\ [][NextMetrics]_vars

\* ------------------------------------------- GroundTruthDataset objects
Kappas == {0, KappaFloor - 1, KappaFloor, Scale}
MetadataLiterals ==
    {[source |-> "expert annotations"]}
    \cup {[source |-> "expert annotations",
           inter_rater_reliability |-> [cohens_kappa |-> k]] : k \in Kappas}
    \cup {[source |-> "expert annotations",
           inter_rater_reliability |-> [fleiss_kappa |-> Scale]]}

\* ratios in tenths
RatioUnit == 10
RatioTriples ==
    {<<6, 2, 2>>, <<5, 5, 0>>, <<0, 0, 10>>, <<3, 3, 4>>, <<0 - 5, 5, 10>>,
     <<5, 5, 5>>, <<6, 2, 3>>}
SplitSeeds == {42, 7}
SplitNames == {"train", "validation", "test"}

InitDataset ==
    /\ InitInstance
    /\ impl = "echo"
    /\ y_true = <<>>
    /\ calculated = None
    /\ NoDatasets
    /\ NoTools

Failure(error) == Raised(None, "ValueError", error, 0)
Success(value) == Returned(None, value, 0)

\* GroundTruthDataset(samples, labels, metadata) with n samples 0 .. n-1 and
\* m labels; the metadata literal's nested dict becomes an object of its own
Construct ==
    /\ "parent" \notin DOMAIN objects
    /\ \E n \in 0..MaxDataset, m \in 0..MaxDataset, literal \in MetadataLiterals :
        LET samples == <<>> \o [i \in 1..n |-> i - 1]
            labels == <<>> \o [i \in 1..m |-> (i - 1) % 2]
            nested == "inter_rater_reliability" \in DOMAIN literal
            heap == IF nested THEN Append(dicts, literal.inter_rater_reliability)
                    ELSE dicts
            metadata == [k \in DOMAIN literal |->
                            IF k = "inter_rater_reliability"
                            THEN [ref |-> Len(heap)] ELSE literal[k]]
            error == post_init(samples, labels, metadata, heap)
        IN  /\ Abs(n - m) <= 1
            /\ IF error = ""
               THEN /\ objects' = [parent |-> [samples |-> samples,
                                               labels |-> labels,
                                               metadata |-> metadata]]
                    /\ dicts' = heap
                    /\ outcome' = Call("GroundTruthDataset",
                                       <<samples, labels, literal>>, Success(None))
               ELSE /\ UNCHANGED <<objects, dicts>>
                    /\ outcome' = Call("GroundTruthDataset",
                                       <<samples, labels, literal>>, Failure(error))
    /\ UNCHANGED <<is_validated, validation_metrics, ground_truth_source,
                   limitations, successes, saved_file, impl, np_random, seed,
                   clock, calcVars, toolVars, edits>>

Split ==
    /\ "parent" \in DOMAIN objects
    /\ "train" \notin DOMAIN objects
    /\ \E ratios \in RatioTriples, split_seed \in SplitSeeds :
        \E r \in {split(objects.parent, ratios[1], ratios[2], ratios[3],
                        RatioUnit, split_seed, dicts)} :
            IF r.error = ""
            THEN /\ objects' = [parent |-> objects.parent,
                                train |-> r.made.train,
                                validation |-> r.made.validation,
                                test |-> r.made.test]
                 /\ outcome' = Call("split", <<ratios, split_seed>>, Success(r.idx))
            ELSE /\ UNCHANGED objects
                 /\ outcome' = Call("split", <<ratios, split_seed>>, Failure(r.error))
    /\ UNCHANGED <<is_validated, validation_metrics, ground_truth_source,
                   limitations, successes, saved_file, impl, np_random, seed,
                   clock, calcVars, toolVars, dicts, edits>>

\* a later change to one instance, made by its holder
Edit(op, name) ==
    /\ "train" \in DOMAIN objects
    /\ edits < MaxEdits
    /\ edits' = edits + 1
    /\ outcome' = Call(op, <<name>>, Success(None))
    /\ UNCHANGED <<is_validated, validation_metrics, ground_truth_source,
                   limitations, successes, saved_file, impl, np_random, seed,
                   clock, calcVars, toolVars>>

\* instance.samples.append(99)
AppendSample ==
    \E name \in DOMAIN objects :
        /\ Edit("samples.append", name)
        /\ objects' = [objects EXCEPT ![name].samples = Append(@, 99)]
        /\ UNCHANGED dicts

\* instance.labels.append(1)
AppendLabel ==
    \E name \in DOMAIN objects :
        /\ Edit("labels.append", name)
        /\ objects' = [objects EXCEPT ![name].labels = Append(@, 1)]
        /\ UNCHANGED dicts

\* instance.metadata['source'] = 'relabelled'
SetSource ==
    \E name \in DOMAIN objects :
        /\ Edit("metadata.__setitem__", name)
        /\ objects' = [objects EXCEPT ![name].metadata.source = "relabelled"]
        /\ UNCHANGED dicts

\* instance.metadata['inter_rater_reliability']['cohens_kappa'] = 0.1
SetNestedKappa ==
    \E name \in DOMAIN objects :
        /\ "inter_rater_reliability" \in DOMAIN objects[name].metadata
        /\ Edit("inter_rater_reliability.__setitem__", name)
        /\ dicts' = [dicts EXCEPT
                       ![objects[name].metadata.inter_rater_reliability.ref] =
                           [k \in DOMAIN @ \cup {"cohens_kappa"} |->
                               IF k = "cohens_kappa" THEN Scale \div 10 ELSE @[k]]]
        /\ UNCHANGED objects

NextDataset ==
    \/ Construct
    \/ Split
    \/ AppendSample
    \/ AppendLabel
    \/ SetSource
    \/ SetNestedKappa

SpecDataset == InitDataset /\ [][NextDataset]_vars

\* ------------------------------------- CircularValidationDetector calls
\* what the descriptions are made of: the red-flag words in several
\* spellings, a near miss and wordings the table does not know
Phrases ==
    { <<"p", "a", "t", "t", "e", "r", "n", " ", "m", "a", "t", "c", "h", "i", "n", "g">>,
      <<"P", "A", "T", "T", "E", "R", "N", " ", "M", "A", "T", "C", "H", "I", "N", "G">>,
      <<"d", "i", "c", "t", "i", "o", "n", "a", "r", "y">>,
      <<"s", "a", "m", "e", " ", "m", "o", "d", "e", "l">>,
      <<"s", "e", "l", "f", "-", "r", "e", "p", "o", "r", "t", "e", "d">>,
      <<"S", "e", "l", "f", "-", "R", "e", "p", "o", "r", "t", "e", "d">>,
      <<"m", "o", "d", "e", "l", " ", "c", "o", "n", "f", "i", "d", "e", "n", "c", "e">>,
      <<"M", "o", "d", "e", "l", " ", "O", "u", "t", "p", "u", "t">>,
      <<"e", "x", "p", "e", "r", "t", " ", "r", "a", "t", "i", "n", "g">>,
      <<"p", "a", "t", "t", "e", "r", "n", "-", "m", "a", "t", "c", "h", "i", "n", "g">>,
      <<"i", "n", "d", "e", "p", "e", "n", "d", "e", "n", "t", " ", "e", "x", "p", "e", "r", "t", " ", "a", "n", "n", "o", "t", "a", "t", "i", "o", "n">> }

\* a description is empty, one phrase, or two phrases with a space between
Descriptions ==
    {<<>>} \cup Phrases \cup {a \o <<" ">> \o b : a, b \in Phrases}

\* a key left out, or the key with one of the values
Optional(key, values) == {<<>>} \cup {key :> v : v \in values}
\* metadata mappings: each recognised key absent or present with a value on
\* either side of its threshold; a reported kappa may be nan, as sklearn
\* returns for annotators who all used one label
QualityMetadata ==
    { [source |-> "expert annotations"] @@ reliability @@ size @@ annotators @@ guidelines :
        reliability \in Optional("inter_rater_reliability",
                          {[method |-> "cohen"]}
                          \cup {[cohens_kappa |-> k] :
                                  k \in {0, QualityKappa - 1, QualityKappa, Scale, NaN}}),
        size \in Optional("sample_size",
                          {0, MinSampleSize - 1, MinSampleSize, MinSampleSize + 1}),
        annotators \in Optional("num_annotators",
                          {MinAnnotators - 1, MinAnnotators}),
        guidelines \in Optional("has_annotation_guidelines", {FALSE, TRUE}) }

Asked(op, args) == [op |-> op, args |-> args]

InitDetector ==
    /\ InitInstance
    /\ impl = "echo"
    /\ y_true = <<>>
    /\ calculated = None
    /\ NoDatasets
    /\ asked \in {Asked("check_independence", <<m, g>>) :
                     m \in Descriptions, g \in Descriptions}
                \cup {Asked("validate_ground_truth_quality", <<metadata>>) :
                         metadata \in QualityMetadata}
    /\ verdict = None
    /\ issues = <<>>
    /\ checks_run = <<>>
    /\ printed = <<>>

CheckIndependence ==
    /\ asked.op = "check_independence"
    /\ verdict = None
    /\ verdict' = check_independence(asked.args[1], asked.args[2])
    /\ UNCHANGED <<measureVars, impl, np_random, seed, clock, calcVars,
                   dataVars, asked, auditorVars>>

ValidateGroundTruthQuality ==
    /\ asked.op = "validate_ground_truth_quality"
    /\ verdict = None
    /\ verdict' = validate_ground_truth_quality(asked.args[1])
    /\ UNCHANGED <<measureVars, impl, np_random, seed, clock, calcVars,
                   dataVars, asked, auditorVars>>

NextDetector ==
    \/ CheckIndependence
    \/ ValidateGroundTruthQuality

SpecDetector == InitDetector /\ [][NextDetector]_vars

\* ------------------------------------------------ MethodologyAuditor calls
\* the paths handed to audit_file: the source files and one that is not there
Filepaths == DOMAIN file_lines \cup {"missing.py"}

\* what rglob("*.py") may yield for a directory: up to MaxFiles of the source
\* files, each once, in any order
RECURSIVE ListingsOf(_)
ListingsOf(n) ==
    IF n = 0 THEN {<<>>}
    ELSE LET shorter == ListingsOf(n - 1)
         IN  shorter \cup
             {Append(listing, filepath) :
                 listing \in {l \in shorter : Len(l) = n - 1},
                 filepath \in DOMAIN file_lines}
Distinct(listing) ==
    \A i, j \in DOMAIN listing : listing[i] = listing[j] => i = j
Listings == {listing \in ListingsOf(MaxFiles) : Distinct(listing)}

\* the checks completed by the last audit_file of a directory audit
last_checks_run(listing) ==
    IF listing = <<>> THEN checks_run
    ELSE audit_file(listing[Len(listing)]).checks_run

\* MethodologyAuditor(): self.issues = []
InitAudit ==
    /\ InitInstance
    /\ impl = "echo"
    /\ y_true = <<>>
    /\ calculated = None
    /\ NoDatasets
    /\ NoTools

AuditFile ==
    \E filepath \in Filepaths :
        \E r \in {audit_file(filepath)} :
            /\ issues' = r.issues
            /\ checks_run' = r.checks_run
            /\ printed' = r.printed
            /\ outcome' = Call("audit_file", <<filepath>>, Success(r.issues))
            /\ UNCHANGED <<is_validated, validation_metrics, ground_truth_source,
                           limitations, successes, saved_file, impl, np_random,
                           seed, clock, calcVars, dataVars, detectorVars>>

AuditDirectory ==
    \E listing \in Listings :
        \E r \in {audit_directory(issues, listing)} :
            /\ issues' = r.issues
            /\ checks_run' = last_checks_run(listing)
            /\ printed' = r.printed
            /\ outcome' = Call("audit_directory", <<listing>>, Success(r.results))
            /\ UNCHANGED <<is_validated, validation_metrics, ground_truth_source,
                           limitations, successes, saved_file, impl, np_random,
                           seed, clock, calcVars, dataVars, detectorVars>>

GenerateReport ==
    /\ outcome' = Call("generate_report", <<>>, Success(generate_report(issues)))
    /\ printed' = <<>>
    /\ UNCHANGED <<is_validated, validation_metrics, ground_truth_source,
                   limitations, successes, saved_file, impl, np_random,
                   seed, clock, calcVars, dataVars, detectorVars, issues,
                   checks_run>>

\* audit_project works on an auditor of its own
AuditProject ==
    \E listing \in Listings :
        \E r \in {audit_project(listing)} :
            /\ checks_run' = last_checks_run(listing)
            /\ printed' = r.printed
            /\ outcome' = Call("audit_project", <<listing>>, Success(r.summary))
            /\ UNCHANGED <<is_validated, validation_metrics, ground_truth_source,
                           limitations, successes, saved_file, impl, np_random,
                           seed, clock, calcVars, dataVars, detectorVars, issues>>

NextAudit ==
    \/ AuditFile
    \/ AuditDirectory
    \/ GenerateReport
    \/ AuditProject

SpecAudit == InitAudit /\ [][NextAudit]_vars

\* ------------------------------------------------------------- the claims
IsValidateCall == outcome.op = "validate_against_ground_truth"
ArgGroundTruth == outcome.args[1]
ArgMinF1 == outcome.args[2]
ArgMinKappa == outcome.args[3]

\* C1: measure and measure_batch raise NotValidated, without running
\* _measure_impl, as long as no validation has succeeded; once one has, they
\* return, and no operation takes the instance back to unvalidated.
GateFollowsValidation ==
    /\ [](outcome.op \in {"measure", "measure_batch"} =>
            IF successes = 0
            THEN outcome.error = "NotValidated" /\ outcome.impl_calls = 0
            ELSE outcome.raised = "")
    /\ [](is_validated <=> successes > 0)
    /\ [][is_validated => is_validated']_vars

\* a measurement returned after a successful validation that was followed
\* by a failed one
MeasuredAfterFailedRevalidation ==
    /\ outcome.op = "measure"
    /\ outcome.raised = ""
    /\ outcome.impl_calls = 1
    /\ successes = 1
    /\ clock = 2
    /\ validation_metrics.timestamp = 1

ValidationErrors ==
    {"MissingGroundTruth", "InsufficientSampleSize", "ThresholdNotMet"}

\* C2: a validate_against_ground_truth call that raises leaves is_validated,
\* validation_metrics, ground_truth_source and limitations as they were.
FailedValidationChangesNothing ==
    [][(outcome'.op = "validate_against_ground_truth"
          /\ outcome'.error \in ValidationErrors)
        => UNCHANGED <<is_validated, validation_metrics, ground_truth_source,
                       limitations>>]_vars

\* a validated instance with a documented limitation whose re-validation
\* missed the thresholds
RevalidationFailed ==
    /\ IsValidateCall
    /\ outcome.error = "ThresholdNotMet"
    /\ is_validated
    /\ limitations # <<>>

\* C3: absent ground truth raises MissingGroundTruth, fewer than 30 samples
\* raise InsufficientSampleSize, both before _measure_impl runs on any
\* sample; 30 samples or more never raise InsufficientSampleSize.
PreconditionsInOrder ==
    IsValidateCall =>
        IF ArgGroundTruth = None
        THEN outcome.error = "MissingGroundTruth" /\ outcome.impl_calls = 0
        ELSE IF Len(ArgGroundTruth.samples) < 30
        THEN outcome.error = "InsufficientSampleSize" /\ outcome.impl_calls = 0
        ELSE /\ outcome.error \notin {"MissingGroundTruth", "InsufficientSampleSize"}
             /\ outcome.impl_calls = Len(ArgGroundTruth.samples)

\* a ground truth of 29 samples was rejected
TwentyNineRejected ==
    /\ IsValidateCall
    /\ ArgGroundTruth # None
    /\ Len(ArgGroundTruth.samples) = 29
    /\ outcome.error = "InsufficientSampleSize"

\* the predictions the instance's measure makes on a ground truth, and the
\* two scores the thresholds are compared with
PredictionsOn(ground_truth) ==
    <<>> \o [i \in DOMAIN ground_truth.samples |->
                measure_impl(impl, ground_truth.samples[i])]
F1On(ground_truth) ==
    f1_score(ground_truth.labels, to_binary(PredictionsOn(ground_truth)))
KappaOn(ground_truth) ==
    cohen_kappa_score(ground_truth.labels, to_binary(PredictionsOn(ground_truth)))
LargeEnough ==
    /\ IsValidateCall
    /\ ArgGroundTruth # None
    /\ Len(ArgGroundTruth.samples) >= 30

\* C4: on a ground truth of at least 30 samples the call returns and sets
\* is_validated exactly when F1 >= min_f1 and kappa >= min_kappa; otherwise
\* it raises ThresholdNotMet and is_validated keeps its value.
GateOpensIffThresholdsMet ==
    /\ [](LargeEnough =>
            IF /\ FloatGE(F1On(ArgGroundTruth), ArgMinF1)
               /\ FloatGE(KappaOn(ArgGroundTruth), ArgMinKappa)
            THEN outcome.raised = "" /\ is_validated
            ELSE outcome.error = "ThresholdNotMet")
    /\ [][outcome'.error = "ThresholdNotMet"
            => is_validated' = is_validated]_vars

\* F1 and kappa both exactly on their thresholds opened the gate
OpenedOnTheBoundary ==
    /\ LargeEnough
    /\ F1On(ArgGroundTruth) = ArgMinF1
    /\ KappaOn(ArgGroundTruth) = ArgMinKappa
    /\ ArgMinF1 < Scale
    /\ outcome.raised = ""
    /\ is_validated

\* the measure reproduces every label of the ground truth
Perfect(ground_truth) ==
    \A i \in DOMAIN ground_truth.samples :
        measure_impl(impl, ground_truth.samples[i]) = Class(ground_truth.labels[i])

\* C5: a measure that reproduces every label of a ground truth of at least
\* 30 samples gets accuracy = precision = recall = F1 = kappa = 1.0 and is
\* validated whatever thresholds <= 1.0 are asked for, single-class ground
\* truths included.
PerfectMeasureValidates ==
    (LargeEnough /\ Perfect(ArgGroundTruth)) =>
        /\ outcome.raised = ""
        /\ is_validated
        /\ outcome.value.accuracy = Scale
        /\ outcome.value.precision = Scale
        /\ outcome.value.recall = Scale
        /\ outcome.value.f1 = Scale
        /\ outcome.value.cohens_kappa = Scale

\* C6 as stated: complemented predictions give a strictly negative kappa
\* for every binary label sequence.
ComplementKappaNegative ==
    (impl = "invert" /\ calculated # None) =>
        FloatLT(calculated.cohens_kappa, 0)

BothClasses(labels) == {labels[i] : i \in DOMAIN labels} = {0, 1}

\* C6 amended: complemented predictions give a strictly negative kappa when
\* both classes occur among the labels, and a kappa of exactly 0 when the
\* labels are all of one class.
ComplementKappaNegativeIfMixed ==
    (impl = "invert" /\ calculated # None) =>
        IF BothClasses(y_true)
        THEN FloatLT(calculated.cohens_kappa, 0)
        ELSE calculated.cohens_kappa = 0

\* complemented predictions on labels of both classes, unevenly split
ComplementOfMixedLabels ==
    /\ impl = "invert"
    /\ calculated # None
    /\ BothClasses(y_true)
    /\ Len(y_true) = 3
    /\ calculated.cohens_kappa < 0
    /\ calculated.accuracy = 0

IsConstruction == outcome.op = "GroundTruthDataset"
ArgSamples == outcome.args[1]
ArgLabels == outcome.args[2]
ArgMetadata == outcome.args[3]
HasReliability == "inter_rater_reliability" \in DOMAIN ArgMetadata
HasKappa ==
    /\ HasReliability
    /\ "cohens_kappa" \in DOMAIN ArgMetadata.inter_rater_reliability
Constructed == outcome.raised = "" /\ "parent" \in DOMAIN objects

\* C7 as stated: ShapeMismatch when the lengths differ; otherwise
\* UnreliableAnnotations when a cohens_kappa value is present and < 0.7;
\* otherwise construction succeeds.
ConstructionOutcomes ==
    IsConstruction =>
        IF Len(ArgSamples) # Len(ArgLabels)
        THEN outcome.error = "ShapeMismatch"
        ELSE IF HasKappa /\ ArgMetadata.inter_rater_reliability.cohens_kappa < 7000
        THEN outcome.error = "UnreliableAnnotations"
        ELSE Constructed

\* C7 amended: ShapeMismatch when the lengths differ; otherwise
\* UnreliableAnnotations when an inter_rater_reliability entry is present
\* and its cohens_kappa value is < 0.7 or missing (a missing value counts as
\* 0); otherwise, with kappa >= 0.7 (0.7 included) or no
\* inter_rater_reliability entry, construction succeeds.
ConstructionOutcomesMissingKappaRejected ==
    IsConstruction =>
        IF Len(ArgSamples) # Len(ArgLabels)
        THEN outcome.error = "ShapeMismatch"
        ELSE IF /\ HasReliability
                /\ (~HasKappa
                    \/ ArgMetadata.inter_rater_reliability.cohens_kappa < 7000)
        THEN outcome.error = "UnreliableAnnotations"
        ELSE Constructed

\* a dataset whose reported kappa is exactly 0.7 was constructed
KappaOnTheFloorAccepted ==
    /\ IsConstruction
    /\ HasKappa
    /\ ArgMetadata.inter_rater_reliability.cohens_kappa = 7000
    /\ Len(ArgSamples) > 0
    /\ Constructed

IsSplit == outcome.op = "split"
ArgRatios == outcome.args[1]
Members(idx) == {idx[i] : i \in DOMAIN idx}

\* C8: for ratios that sum to 1.0 the three index sets returned by split are
\* pairwise disjoint, cover 0 .. n-1, and have floor(n * train_ratio),
\* floor(n * val_ratio) and the remaining number of members.
SplitIsExactPartition ==
    (IsSplit /\ outcome.raised = ""
        /\ ArgRatios[1] + ArgRatios[2] + ArgRatios[3] = RatioUnit) =>
        LET idx == outcome.value
            n == Len(objects.parent.samples)
        IN  /\ Members(idx.train) \cap Members(idx.validation) = {}
            /\ Members(idx.train) \cap Members(idx.test) = {}
            /\ Members(idx.validation) \cap Members(idx.test) = {}
            /\ Members(idx.train) \cup Members(idx.validation)
                  \cup Members(idx.test) = 0..(n - 1)
            /\ Len(idx.train) = (n * ArgRatios[1]) \div RatioUnit
            /\ Len(idx.validation) = (n * ArgRatios[2]) \div RatioUnit
            /\ Len(idx.test) = n - Len(idx.train) - Len(idx.validation)

\* what an instance shows to its holder: its lists and its metadata with the
\* nested dict read through the reference
View(name) ==
    [samples |-> objects[name].samples,
     labels |-> objects[name].labels,
     metadata |-> [k \in DOMAIN objects[name].metadata |->
                      IF k = "inter_rater_reliability"
                      THEN dicts[objects[name].metadata[k].ref]
                      ELSE objects[name].metadata[k]]]

EditOps == {"samples.append", "labels.append", "metadata.__setitem__",
            "inter_rater_reliability.__setitem__"}

\* C9: split leaves the parent as it was, also when it raises; each of the
\* three new instances carries the parent's metadata plus its split tag; and
\* a later change to one instance's samples, labels or metadata, nested
\* values included, shows through no other instance.
SplitsAreIndependent ==
    [][/\ outcome'.op = "split" =>
            /\ View("parent")' = View("parent")
            /\ outcome'.raised = "" =>
                 \A name \in SplitNames :
                    View(name)'.metadata
                        = with_split(View("parent").metadata, name)
       /\ outcome'.op \in EditOps =>
            \A other \in DOMAIN objects \ {outcome'.args[1]} :
                View(other)' = View(other)]_vars

\* C10: the bootstrap interval is a function of the data and of the seed
\* the generator was started from: a validation reports the interval that a
\* bootstrap of the same predictions and labels run directly from that seed
\* reports, whatever ran in between.
BootstrapReproducibleFromSeed ==
    (IsValidateCall /\ outcome.raised = "") =>
        outcome.value.confidence_intervals
            = bootstrap_confidence_intervals(
                  PredictionsOn(ArgGroundTruth), ArgGroundTruth.labels,
                  NBootstrap, Confidence, seed).ci

\* the value at rank k (1 the smallest) among the entries of values
KthSmallest(values, k) ==
    CHOOSE v \in {values[i] : i \in DOMAIN values} :
        /\ Cardinality({i \in DOMAIN values : values[i] < v}) < k
        /\ Cardinality({i \in DOMAIN values : values[i] <= v}) >= k
\* the fraction q (in units of 1/Scale) of the way through the ordered
\* values, interpolating linearly between neighbouring ranks
Quantile(values, q) ==
    LET n == Len(values)
        below == (q * (n - 1)) \div Scale
        part == (q * (n - 1)) % Scale
        lo == KthSmallest(values, below + 1)
        hi == KthSmallest(values, IF below + 2 <= n THEN below + 2 ELSE n)
    IN  lo + ((hi - lo) * part) \div Scale

\* the bootstrap a validation of ground_truth runs when np.random is in state
BootstrapOf(ground_truth, state) ==
    resample_f1(PredictionsOn(ground_truth), ground_truth.labels, state, NBootstrap)
\* every resample is n positions of the n samples (repeats allowed) and its
\* F1 value is that of the samples at those positions
ResamplesDrawn(ground_truth, run) ==
    LET n == Len(ground_truth.samples) IN
    \A binary \in {to_binary(PredictionsOn(ground_truth))} :
        /\ Len(run.draws) = NBootstrap
        /\ Len(run.f1_scores) = NBootstrap
        /\ \A k \in 1..NBootstrap :
            /\ Len(run.draws[k]) = n
            /\ \A i \in 1..n : run.draws[k][i] \in 1..n
            /\ run.f1_scores[k]
                 = f1_score(<<>> \o [i \in 1..n |-> ground_truth.labels[run.draws[k][i]]],
                            <<>> \o [i \in 1..n |-> binary[run.draws[k][i]]])
\* the interval reported is made of the quantiles lower_q and upper_q of the
\* resampled F1 values
IntervalIs(interval, ground_truth, state, lower_q, upper_q) ==
    \A run \in {BootstrapOf(ground_truth, state)} :
        /\ ResamplesDrawn(ground_truth, run)
        /\ interval = << Quantile(run.f1_scores, lower_q),
                         Quantile(run.f1_scores, upper_q) >>

\* C11 as stated: with confidence level c the interval of a successful
\* validation is made of the c/2 and 1 - c/2 quantiles of the n_bootstrap
\* resampled F1 values, each resample being n indices drawn with replacement.
BootstrapBoundsAtHalfConfidence ==
    [][(outcome'.op = "validate_against_ground_truth" /\ outcome'.raised = "")
        => IntervalIs(outcome'.value.confidence_intervals.f1,
                      outcome'.args[1], np_random,
                      Confidence \div 2, Scale - Confidence \div 2)]_vars

\* C11 amended: with confidence level c the interval of a successful
\* validation is made of the (1 - c)/2 and 1 - (1 - c)/2 quantiles of the
\* n_bootstrap resampled F1 values, each resample being n indices drawn with
\* replacement from the n samples.
BootstrapBoundsAtHalfAlpha ==
    [][(outcome'.op = "validate_against_ground_truth" /\ outcome'.raised = "")
        => IntervalIs(outcome'.value.confidence_intervals.f1,
                      outcome'.args[1], np_random,
                      (Scale - Confidence) \div 2,
                      Scale - (Scale - Confidence) \div 2)]_vars

\* a validation returned an interval with lower < upper
IntervalReported ==
    /\ IsValidateCall
    /\ outcome.raised = ""
    /\ outcome.value.confidence_intervals.f1[1]
         < outcome.value.confidence_intervals.f1[2]

\* the same letter, whatever its case
SameLetter(a, b) ==
    \/ a = b
    \/ a \in DOMAIN upper_case /\ upper_case[a] = b
    \/ b \in DOMAIN upper_case /\ upper_case[b] = a
\* pattern occurs in text case-insensitively
Occurs(pattern, text) ==
    \E start \in 0..(Len(text) - Len(pattern)) :
        \A j \in DOMAIN pattern : SameLetter(text[start + j], pattern[j])
\* the table entries whose measure pattern occurs in the measure description
\* and whose ground-truth pattern occurs in the ground-truth description
Offending(measure_method, ground_truth_method) ==
    {k \in DOMAIN circular_patterns :
        /\ Occurs(circular_patterns[k][1], measure_method)
        /\ Occurs(circular_patterns[k][2], ground_truth_method)}
First(S) == CHOOSE k \in S : \A other \in S : k <= other
IndependenceChecked == asked # None /\ asked.op = "check_independence" /\ verdict # None

\* C12: check_independence answers "not independent" exactly when some table
\* entry has its measure pattern in the measure description and its
\* ground-truth pattern in the ground-truth description, case-insensitively,
\* and then names the first such entry; otherwise it answers "independent".
IndependenceVerdict ==
    IndependenceChecked =>
        LET offending == Offending(asked.args[1], asked.args[2])
        IN  IF offending = {}
            THEN /\ verdict.is_independent
                 /\ verdict.explanation.text = independent_text
            ELSE /\ ~verdict.is_independent
                 /\ verdict.explanation.text = circular_text
                 /\ verdict.explanation.measure_pattern
                      = circular_patterns[First(offending)][1]
                 /\ verdict.explanation.gt_pattern
                      = circular_patterns[First(offending)][2]

\* two entries offend, one of them written in capitals, and the earlier one
\* is named
FirstOfTwoNamed ==
    /\ IndependenceChecked
    /\ Cardinality(Offending(asked.args[1], asked.args[2])) >= 2
    /\ asked.args[1] # str_lower(asked.args[1])
    /\ ~verdict.is_independent

QualityChecked ==
    asked # None /\ asked.op = "validate_ground_truth_quality" /\ verdict # None
\* the four checks of the checklist, in their order: is the check met?
CheckMet(metadata, check) ==
    CASE check = 1 ->
            /\ "inter_rater_reliability" \in DOMAIN metadata
            /\ "cohens_kappa" \in DOMAIN metadata.inter_rater_reliability
            /\ FloatGE(metadata.inter_rater_reliability.cohens_kappa, 7000)
      [] check = 2 ->
            "sample_size" \in DOMAIN metadata /\ metadata.sample_size >= 100
      [] check = 3 ->
            "num_annotators" \in DOMAIN metadata /\ metadata.num_annotators >= 3
      [] check = 4 ->
            /\ "has_annotation_guidelines" \in DOMAIN metadata
            /\ metadata.has_annotation_guidelines
\* the issues that speak of a check
IssuesOf(check) ==
    CASE check = 1 -> {kappa_below, kappa_missing}
      [] check = 2 -> {size_below, size_missing}
      [] check = 3 -> {annotators_below, annotators_missing}
      [] check = 4 -> {guidelines_missing}
Unmet(metadata) ==
    SelectSeq(<<1, 2, 3, 4>>, LAMBDA check : ~CheckMet(metadata, check))
\* one issue for every unmet check, in the order of the checks, and a pass
\* exactly when there is none
IssuePerUnmetCheck(metadata, result) ==
    /\ Len(result.issues) = Len(Unmet(metadata))
    /\ \A i \in DOMAIN result.issues :
          result.issues[i] \in IssuesOf(Unmet(metadata)[i])
    /\ result.is_valid <=> result.issues = <<>>

\* C13: validate_ground_truth_quality returns one issue for every check
\* (kappa >= 0.7, sample_size >= 100, num_annotators >= 3, guidelines true)
\* that is missing or unmet, in that order, never stopping at the first; it
\* passes exactly when there is no issue, and metadata without any of the
\* four keys fails with four issues.
QualityIssuePerUnmetCheck ==
    QualityChecked => IssuePerUnmetCheck(asked.args[1], verdict)

\* C13 without a kappa that is not a number: for every metadata whose
\* reported kappa is a number the checklist returns one issue per unmet
\* check, in order.
QualityIssuePerUnmetCheckOnNumbers ==
    (/\ QualityChecked
     /\ ~(/\ "inter_rater_reliability" \in DOMAIN asked.args[1]
          /\ dict_get(asked.args[1].inter_rater_reliability, "cohens_kappa", 0) = NaN))
        => IssuePerUnmetCheck(asked.args[1], verdict)

\* metadata with none of the four keys failed with four issues
FourIssuesForEmptyMetadata ==
    /\ QualityChecked
    /\ DOMAIN asked.args[1] = {"source"}
    /\ ~verdict.is_valid
    /\ Len(verdict.issues) = 4

NoneDocumented == "(No limitations documented)"
\* C14: unvalidated, save_validation raises NotValidated and writes nothing
\* while get_validation_report returns the not-yet-validated text; validated,
\* both return, and the report of a measure without limitations carries the
\* none-documented marker; neither changes is_validated, the metrics, the
\* source or the limitations.
ReportAndSaveFollowTheGate ==
    /\ [](outcome.op = "save_validation" =>
            IF is_validated
            THEN /\ outcome.raised = ""
                 /\ saved_file = outcome.value
                 /\ saved_file.is_validated
                 /\ saved_file.limitations = limitations
                 /\ saved_file.ground_truth_source = ground_truth_source
                 /\ saved_file.validation_metrics.f1 = validation_metrics.f1
            ELSE /\ outcome.raised = "RuntimeError"
                 /\ outcome.error = "NotValidated"
                 /\ saved_file = None)
    /\ [](outcome.op = "get_validation_report" =>
            /\ outcome.raised = ""
            /\ IF is_validated
               THEN /\ outcome.value.text = "Validation Report"
                    /\ outcome.value.limitations
                         = IF limitations = <<>> THEN <<NoneDocumented>>
                           ELSE limitations
               ELSE outcome.value = [text |-> "has not been validated"])
    /\ [][outcome'.op \in {"save_validation", "get_validation_report"}
            => /\ UNCHANGED <<is_validated, validation_metrics,
                              ground_truth_source, limitations>>
               /\ (~is_validated => saved_file' = saved_file)]_vars

\* a validated measure without limitations was saved and then reported, the
\* report carrying the marker
SavedThenReportedNoneDocumented ==
    /\ outcome.op = "get_validation_report"
    /\ is_validated
    /\ limitations = <<>>
    /\ saved_file # None
    /\ outcome.value.limitations = <<NoneDocumented>>

\* C15: add_limitation returns in both states, appends its text at the end of
\* the limitation list (the list is the texts added, in call order,
\* duplicates kept) and leaves is_validated, validation_metrics and
\* ground_truth_source unchanged.
LimitationAppended ==
    /\ [][outcome'.op = "add_limitation"
            => /\ outcome'.raised = ""
               /\ limitations' = limitations \o <<outcome'.args[1]>>
               /\ UNCHANGED <<is_validated, validation_metrics,
                              ground_truth_source>>]_vars
    /\ [][outcome'.op # "add_limitation" => limitations' = limitations]_vars

\* a validated measure holds the same text twice, the second just added
DuplicateKeptAcrossValidation ==
    /\ outcome.op = "add_limitation"
    /\ is_validated
    /\ Len(limitations) = 2
    /\ limitations[1] = limitations[2]

ValidationReturned(o) == o.op = "validate_against_ground_truth" /\ o.raised = ""
\* C16: is_validated holds exactly when validation_metrics is set and exactly
\* when ground_truth_source is set; metrics and source are those of the most
\* recent validate_against_ground_truth call that returned (such a call
\* replaces both together, nothing else replaces either), and the stored
\* metrics meet the thresholds passed to that call.
StoredResultIsLastSuccess ==
    /\ [](/\ is_validated <=> validation_metrics # None
          /\ is_validated <=> ground_truth_source # NoSource)
    /\ [][ValidationReturned(outcome')
            => /\ is_validated'
               /\ validation_metrics' = outcome'.value
               /\ ground_truth_source'
                    = IF "source" \in DOMAIN outcome'.args[1].metadata
                      THEN outcome'.args[1].metadata.source ELSE "unknown"
               /\ validation_metrics'.timestamp = clock'
               /\ FloatGE(validation_metrics'.f1, outcome'.args[2])
               /\ FloatGE(validation_metrics'.cohens_kappa, outcome'.args[3])]_vars
    /\ [][~ValidationReturned(outcome')
            => UNCHANGED <<is_validated, validation_metrics,
                           ground_truth_source>>]_vars

\* a second validation returned, on a ground truth that declares no source,
\* and its result is the one stored
RevalidatedOnUnsourcedGroundTruth ==
    /\ ValidationReturned(outcome)
    /\ successes = 2
    /\ "source" \notin DOMAIN outcome.args[1].metadata
    /\ ground_truth_source = "unknown"
    /\ validation_metrics = outcome.value

\* -------------------------------------------- claims on the auditor
\* what each check finds in a file when it is run on its own
FoundBy(check, filepath) ==
    LET lines == file_lines[filepath] IN
    CASE check = "circular_validation" ->
            check_circular_validation(<<>>, lines, filepath).issues
      [] check = "missing_validation" ->
            check_missing_validation(<<>>, lines, filepath).issues
      [] check = "statistical_issues" ->
            check_statistical_issues(<<>>, lines, filepath).issues
      [] check = "reproducibility" ->
            check_reproducibility(<<>>, lines, filepath).issues
      [] check = "ast" ->
            IF ast_parse[filepath].syntax_error THEN <<>>
            ELSE check_ast(<<>>, ast_parse[filepath], filepath).issues

\* the checks due for a file: all five, the AST check only if the file parses
ChecksDue(filepath) ==
    IF ast_parse[filepath].syntax_error THEN SubSeq(Checks, 1, 4) ELSE Checks

FileAudited == outcome.op = "audit_file" /\ outcome.args[1] \in DOMAIN file_lines

\* C17: after audit_file on a readable file all the checks due have run, in
\* order, no exception was swallowed, and the list returned is what the
\* checks find, check after check
AuditFileRunsEveryCheck ==
    FileAudited =>
        /\ checks_run = ChecksDue(outcome.args[1])
        /\ printed = <<>>
        /\ outcome.value = Flatten([c \in DOMAIN Checks |->
                                       FoundBy(Checks[c], outcome.args[1])])

\* what audit_file does instead: the missing-validation check raises on every
\* file, the error is printed and the circular-validation issues are returned
AuditFileStopsAtSecondCheck ==
    FileAudited =>
        /\ checks_run = <<"circular_validation">>
        /\ Len(printed) = 1
        /\ outcome.value = FoundBy("circular_validation", outcome.args[1])

\* a file with two statistical issues was audited and came back clean
StatisticalIssuesNotReturned ==
    /\ FileAudited
    /\ Len(FoundBy("statistical_issues", outcome.args[1])) = 2
    /\ outcome.value = <<>>

\* the counts over all the issue lists of an audit_directory result
CountIn(results, severities) ==
    SumOver(DOMAIN results,
            [filepath \in DOMAIN results |->
                Len(SelectSeq(results[filepath],
                              LAMBDA i : i.severity \in severities))])
Totals(results) ==
    [total_issues |-> CountIn(results, {"critical", "major", "minor"}),
     critical |-> CountIn(results, {"critical"}),
     major |-> CountIn(results, {"major"}),
     minor |-> CountIn(results, {"minor"})]

\* the counts a report states; the one-line report states that there are none
ReportTotals(report) ==
    IF report.text = no_issues_found
    THEN [total_issues |-> 0, critical |-> 0, major |-> 0, minor |-> 0]
    ELSE [total_issues |-> report.total, critical |-> report.critical,
          major |-> report.major, minor |-> report.minor]
SummaryTotals(summary) ==
    [total_issues |-> summary.total_issues, critical |-> summary.critical,
     major |-> summary.major, minor |-> summary.minor]

SeveralAudited(o, op) == o.op = op /\ Len(o.args[1]) >= 2

\* C18: a report generated right after audit_directory audited several files
\* states the totals over all the issue lists of its result, and so does the
\* summary audit_project returns for a directory of several files
TotalsCoverEveryFile ==
    /\ [][SeveralAudited(outcome, "audit_directory")
            /\ outcome'.op = "generate_report"
            => ReportTotals(outcome'.value) = Totals(outcome.value)]_vars
    /\ [](SeveralAudited(outcome, "audit_project")
            => SummaryTotals(outcome.value)
                 = Totals(audit_directory(<<>>, outcome.args[1]).results))

\* what the code does instead: the totals are those of the file audited last
TotalsCoverLastFile ==
    /\ [][SeveralAudited(outcome, "audit_directory")
            /\ outcome'.op = "generate_report"
            => ReportTotals(outcome'.value)
                 = Totals([last \in {"last"} |-> issues])]_vars
    /\ [](SeveralAudited(outcome, "audit_project")
            => SummaryTotals(outcome.value)
                 = Totals([last \in {"last"} |->
                     audit_file(outcome.args[1][Len(outcome.args[1])]).issues]))

\* a project of two files, the first with issues and the second clean, is
\* summarised as one file with issues and no issue at all
IssuesOfFirstFileLost ==
    /\ SeveralAudited(outcome, "audit_project")
    /\ outcome.value.files_with_issues = 1
    /\ outcome.value.total_issues = 0

====
